---- MODULE Spec2Model ----
(***************************************************************************)
(* A model of the audio layering engine of src/src/hooks/useAudio.ts: the  *)
(* useAudio hook (binaural effect, ambient effect, volume effect, unmount  *)
(* effect), both backends (Tone.js and the raw Web Audio / HTMLAudio path  *)
(* used under Electron), and the asynchronous callbacks they leave         *)
(* pending (context unlock, asset load, retry backoff, disposal timers).   *)
(*                                                                         *)
(* A node is identified by the activation attempt that constructed it: an  *)
(* attempt constructs at most one node of each kind.  0 stands for null.   *)
(*                                                                         *)
(* Around the hook: the Start/Stop handlers of NoiseGenerator, AudioPanel   *)
(* and AppContent, migrateNoiseConfig, the useTimer hook with the           *)
(* completion handler of AppContent, and getDayBlocks of sessionStorage.ts. *)
(***************************************************************************)
EXTENDS Integers, FiniteSets, Sequences, TLC

\* ------------------------------------------------------------------ bounds
\* Number of configuration snapshots applied after the mount.
MaxChanges == 2
\* The same, for the specification with fairness (SpecRetry).
MaxRetryChanges == 1
\* The same, for the specification of both layers together (SpecLayers).
MaxLayerChanges == 1
\* Number of getTone() calls made by start handlers (SpecGate).
MaxCalls == 3

\* One activation attempt per layer per effect run: the mount plus each change.
Att == 1..(MaxChanges + 1)

\* ------------------------------------------------------------- input sets
\* Presets the model draws from (types.ts lists more; these cover the
\* beat branch, the block-noise branch and three distinct ambient assets).
BinauralChoices == {"off", "focus", "block-noise"}
AmbientChoices == {"off", "cafe", "rain", "airport"}
\* Volumes in percent of full scale.
VolumeChoices == {50, 100}

AMBIENT_PRESETS == {"cafe", "airport", "rain", "library", "coffee-shop"}

DEFAULT_NOISE_CONFIG ==
    [ enabled |-> FALSE, binauralPreset |-> "off", ambientPreset |-> "off",
      binauralVolume |-> 50, ambientVolume |-> 50, fadeIn |-> TRUE, fadeOut |-> TRUE ]

VARIABLES
    gate,           \* getTone(): contexts and modules constructed, the calls made
    electron,       \* isElectron(): which backend this run uses
    mounted,        \* "init" before the first render, "mounted", "unmounted"
    config,         \* the latest configuration snapshot passed to useAudio
    changes,        \* number of snapshots applied after the mount
    toneModuleRef,  \* toneModuleRef.current # null
    ctx,            \* electronContextRef.current: "none", "suspended", "running"
    bin,            \* binaural layer: refs, cancellation flag, attempts, nodes, timers
    amb,            \* ambient layer: refs, cancellation flag, attempts, nodes, timers
    ambientLoadError, \* the load-error signal: a preset or "null"
    ui,             \* the Start/Stop handlers: 'starting', start errors, pending unlocks
    phase,          \* the oscillator pair last started for a beat preset
    stored,         \* the record last passed to migrateNoiseConfig and its result
    timer,          \* useTimer and the completion handler of AppContent
    day             \* the sessions last passed to getDayBlocks and its result

\* The state of the rest of the application, and the state of the audio hook.
appVars == << ui, phase, stored, timer, day >>
audioVars == << gate, electron, mounted, config, changes, toneModuleRef, ctx, bin, amb, ambientLoadError >>

vars == << gate, electron, mounted, config, changes, toneModuleRef, ctx, bin, amb, ambientLoadError,
           ui, phase, stored, timer, day >>

\* ======================================================== application state
\* NoiseGenerator's 'starting', AudioPanel's startError, AppContent's
\* audioStartError, and where each start handler is: "idle", awaiting
\* getTone() ("getTone") or awaiting Tone.start() ("start").
UiInit ==
    [ starting |-> FALSE, startError |-> "null", audioStartError |-> "null",
      toggle |-> "idle", timerStart |-> "idle" ]

PhaseInit == [ preset |-> "none" ]

StoredInit == [ made |-> FALSE ]

\* -------------------------------------------------------------- useTimer
\* Pomodoro configurations (minutes, and cycles per long break).
PomodoroConfigs ==
    { [ workDuration |-> w, shortBreakDuration |-> 1, longBreakDuration |-> 2,
        cyclesUntilLongBreak |-> n ] : w \in {1, 2}, n \in {2, 3} }

\* The state of useTimer as of the last render; `interval` says whether the
\* one-second interval is set, `last` names the last operation and `ran`
\* counts the runs of onComplete it made.
TimerWith(c) ==
    [ config |-> c, state |-> "idle", timeRemaining |-> c.workDuration * 60,
      currentCycle |-> 0, isWorkSession |-> TRUE, sessionStartTime |-> FALSE,
      interval |-> FALSE, ran |-> 0, last |-> "none" ]

TimerInit == TimerWith(CHOOSE c \in PomodoroConfigs : c.workDuration = 1 /\ c.cyclesUntilLongBreak = 2)

Max0(x) == IF x < 0 THEN 0 ELSE x

currentDuration(t) ==
    IF t.isWorkSession
    THEN t.config.workDuration * 60
    ELSE IF t.currentCycle % t.config.cyclesUntilLongBreak = 0
         THEN t.config.longBreakDuration * 60
         ELSE t.config.shortBreakDuration * 60

\* The two effects of useTimer, run after a render that took the state from
\* `old` to `new`: the interval follows state = running, and a render that is
\* idle with a changed dependency sets timeRemaining to the session's duration.
TimerEffects(old, new) ==
    LET t1 == [new EXCEPT !.interval = (new.state = "running")]
        changed == \/ old.isWorkSession # new.isWorkSession
                   \/ old.currentCycle # new.currentCycle
                   \/ old.config # new.config
                   \/ old.state # new.state
    IN  IF new.state = "idle" /\ changed
        THEN [t1 EXCEPT !.timeRemaining = currentDuration(new)]
        ELSE t1

start(t) ==
    IF t.state = "running" THEN t
    ELSE [t EXCEPT !.sessionStartTime = TRUE, !.state = "running"]

pause(t) ==
    IF t.state # "running" THEN t ELSE [t EXCEPT !.state = "paused"]

\* stop that keeps the cycle count.
stopKeepsCycle(t) ==
    [t EXCEPT !.state = "idle", !.sessionStartTime = FALSE, !.isWorkSession = TRUE,
              !.timeRemaining = t.config.workDuration * 60]

stop(t) ==
    [t EXCEPT !.state = "idle", !.sessionStartTime = FALSE, !.isWorkSession = TRUE,
              !.currentCycle = 0, !.timeRemaining = t.config.workDuration * 60]

\* adjustTime without the clamp.
adjustTimeUnclamped(t, deltaSeconds) ==
    [t EXCEPT !.timeRemaining = t.timeRemaining + deltaSeconds]

adjustTime(t, deltaSeconds) ==
    [t EXCEPT !.timeRemaining = Max0(t.timeRemaining + deltaSeconds)]

resetTimer(t, duration) ==
    [t EXCEPT !.timeRemaining = duration * 60, !.state = "idle"]

\* handleTimerComplete that does not count the completed work cycle.
handleTimerCompleteKeepsCycle(r, p) ==
    IF r.isWorkSession
    THEN resetTimer([p EXCEPT !.isWorkSession = FALSE, !.ran = p.ran + 1],
                    r.config.shortBreakDuration)
    ELSE resetTimer([p EXCEPT !.isWorkSession = TRUE, !.ran = p.ran + 1],
                    r.config.workDuration)

\* handleTimerComplete of AppContent: it reads the timer of the last render
\* (timerRef.current = r) and queues its updates on top of the pending ones (p).
handleTimerComplete(r, p) ==
    LET isWork == r.isWorkSession
        newCycle == IF isWork THEN r.currentCycle + 1 ELSE r.currentCycle
        breakDuration == IF newCycle % r.config.cyclesUntilLongBreak = 0
                         THEN r.config.longBreakDuration
                         ELSE r.config.shortBreakDuration
    IN  IF isWork
        THEN resetTimer([p EXCEPT !.isWorkSession = FALSE, !.currentCycle = newCycle,
                                  !.ran = p.ran + 1], breakDuration)
        ELSE resetTimer([p EXCEPT !.isWorkSession = TRUE, !.ran = p.ran + 1],
                        r.config.workDuration)

\* The interval callback: the updater of setTimeRemaining.  At prev <= 1 it
\* queues sessionStartTime = null and state = completed, runs onComplete and
\* returns 0; all of it is rendered together.
tick(t) ==
    LET t0 == [t EXCEPT !.ran = 0]
    IN  IF t.timeRemaining <= 1
        THEN [handleTimerComplete(t, [t0 EXCEPT !.sessionStartTime = FALSE,
                                                !.state = "completed"])
                EXCEPT !.timeRemaining = 0]
        ELSE [t0 EXCEPT !.timeRemaining = t.timeRemaining - 1]

skip(t) == handleTimerComplete(t, t)

\* The render after operation `name` took the pending state to `new`.
TimerAfter(name, new) == TimerEffects(timer, [new EXCEPT !.last = name])
\* The state an operation starts from.
TimerNow == [timer EXCEPT !.ran = 0]

DayInit == [ made |-> FALSE ]

\* ============================================================ binaural layer
\* Node status: "none" (never constructed), "live" (constructed; sources are
\* started in the same step they are constructed), "disposed" (stopped and
\* disposed / disconnected).
NoBinauralNodes ==
    [ gain |-> "none", noise |-> "none", merge |-> "none", left |-> "none",
      right |-> "none", value |-> 0 ]

NoBinauralAttempt ==
    [ pc |-> "none", preset |-> "off", volume |-> 0 ]

NoPrev == [ noise |-> 0, left |-> 0, right |-> 0, merge |-> 0, gain |-> 0 ]

BinInit ==
    [ binauralCancelledRef |-> FALSE,
      noiseRef |-> 0, leftOscRef |-> 0, rightOscRef |-> 0, mergeRef |-> 0,
      binauralGainRef |-> 0,
      nativeLeftOscRef |-> 0, nativeRightOscRef |-> 0, nativeNoiseRef |-> 0,
      nativeBinauralGainRef |-> 0,
      cleanup |-> "none",   \* what the last effect run returned
      cur |-> 0,            \* the attempt of the last effect run (0: it started none)
      n |-> 0,              \* attempts started so far
      att |-> [i \in Att |-> NoBinauralAttempt],
      node |-> [i \in Att |-> NoBinauralNodes],
      timer |-> [i \in Att |-> [st |-> "none", prev |-> NoPrev]] ]

\* stop() and dispose() of one node; on null or on a disposed node a no-op.
DisposeNode(node, i, kind) ==
    IF i = 0 \/ node[i][kind] = "none" THEN node
    ELSE [node EXCEPT ![i][kind] = "disposed"]

DisposeFive(node, prev) ==
    DisposeNode(DisposeNode(DisposeNode(DisposeNode(DisposeNode(node,
        prev.noise, "noise"), prev.left, "left"), prev.right, "right"),
        prev.merge, "merge"), prev.gain, "gain")

disposeNativeBinaural(b) ==
    [b EXCEPT
        !.node = DisposeNode(DisposeNode(DisposeNode(DisposeNode(@,
                    b.nativeLeftOscRef, "left"), b.nativeRightOscRef, "right"),
                    b.nativeNoiseRef, "noise"), b.nativeBinauralGainRef, "gain"),
        !.nativeLeftOscRef = 0, !.nativeRightOscRef = 0, !.nativeNoiseRef = 0,
        !.nativeBinauralGainRef = 0]

BinauralRefs(b) ==
    [ noise |-> b.noiseRef, left |-> b.leftOscRef, right |-> b.rightOscRef,
      merge |-> b.mergeRef, gain |-> b.binauralGainRef ]

ClearBinauralRefs(b) ==
    [b EXCEPT !.noiseRef = 0, !.leftOscRef = 0, !.rightOscRef = 0, !.mergeRef = 0,
              !.binauralGainRef = 0]

disposeBinaural(b) ==
    IF electron THEN disposeNativeBinaural(b)
    ELSE ClearBinauralRefs([b EXCEPT !.node = DisposeFive(@, BinauralRefs(b))])

disposeBinauralNodes(b, prev) ==
    [b EXCEPT !.node = DisposeFive(@, prev)]

\* runNativeBinaural (Electron): dispose what the native refs hold, then build
\* gain and either the noise source or the oscillator pair, and start them.
runNativeBinaural(b, i) ==
    LET d == disposeNativeBinaural(b)
        a == d.att[i]
    IN  IF a.preset = "block-noise"
        THEN [d EXCEPT !.node[i] = [@ EXCEPT !.gain = "live", !.noise = "live",
                                             !.value = a.volume],
                       !.nativeBinauralGainRef = i, !.nativeNoiseRef = i]
        ELSE [d EXCEPT !.node[i] = [@ EXCEPT !.gain = "live", !.merge = "live",
                                             !.left = "live", !.right = "live",
                                             !.value = a.volume],
                       !.nativeBinauralGainRef = i, !.nativeLeftOscRef = i,
                       !.nativeRightOscRef = i]

\* The part of startBinaural after `await Tone.start()`.
startBinauralBody(b, i) ==
    LET a == b.att[i]
        prev == BinauralRefs(b)
    IN  IF b.binauralCancelledRef THEN b
        ELSE IF a.preset = "block-noise"
        THEN LET built == [b EXCEPT !.node[i] = [@ EXCEPT !.gain = "live",
                                        !.noise = "live", !.value = a.volume]]
             IN  IF built.binauralCancelledRef
                 THEN disposeBinauralNodes(
                        [built EXCEPT !.node[i] = [@ EXCEPT !.gain = "disposed",
                                                            !.noise = "disposed"]], prev)
                 ELSE disposeBinauralNodes(
                        [built EXCEPT !.binauralGainRef = i, !.noiseRef = i], prev)
        ELSE LET built == [b EXCEPT !.node[i] = [@ EXCEPT !.gain = "live",
                                        !.merge = "live", !.left = "live",
                                        !.right = "live", !.value = a.volume]]
             IN  IF built.binauralCancelledRef
                 THEN disposeBinauralNodes(
                        [built EXCEPT !.node[i] = [@ EXCEPT !.gain = "disposed",
                               !.merge = "disposed", !.left = "disposed",
                               !.right = "disposed"]], prev)
                 ELSE disposeBinauralNodes(
                        [built EXCEPT !.binauralGainRef = i, !.mergeRef = i,
                                      !.leftOscRef = i, !.rightOscRef = i], prev)

\* The cleanup returned by the Tone path of the binaural effect; fadeOut is
\* config.fadeOut of the snapshot the effect last ran with.
ToneBinauralCleanup(b, fadeOut) ==
    LET prev == BinauralRefs(b)
        ramp == fadeOut /\ prev.gain # 0 /\ toneModuleRef
        c == ClearBinauralRefs([b EXCEPT !.binauralCancelledRef = TRUE])
    IN  [c EXCEPT !.timer[b.cur] = [st |-> "pending", prev |-> prev],
                  !.node = IF ramp THEN [@ EXCEPT ![prev.gain].value = 0] ELSE @]

BinauralCleanup(b, fadeOut) ==
    CASE b.cleanup = "tone" -> [ToneBinauralCleanup(b, fadeOut) EXCEPT !.cleanup = "none", !.cur = 0]
      [] b.cleanup = "native" -> [disposeNativeBinaural(b) EXCEPT !.cleanup = "none", !.cur = 0]
      [] OTHER -> [b EXCEPT !.cur = 0]

NewBinauralAttempt(b, cfg, pc) ==
    [b EXCEPT !.n = @ + 1, !.cur = b.n + 1,
              !.att[b.n + 1] = [ pc |-> pc, preset |-> cfg.binauralPreset,
                                 volume |-> cfg.binauralVolume ]]

\* BinauralEffect without the test of ctx.state: the Electron branch builds at
\* once and calls resume() besides.
BinauralEffectBuildsFirst(b, cfg) ==
    IF ~cfg.enabled \/ cfg.binauralPreset = "off" THEN disposeBinaural(b)
    ELSE IF electron
    THEN IF ctx = "none" THEN b
         ELSE LET s == NewBinauralAttempt(b, cfg, IF ctx = "suspended" THEN "resume" ELSE "done")
              IN  [runNativeBinaural(s, s.cur) EXCEPT !.cleanup = "native"]
    ELSE [NewBinauralAttempt(b, cfg, "getTone") EXCEPT
              !.binauralCancelledRef = FALSE, !.cleanup = "tone"]

\* The body of the binaural effect, run with the snapshot cfg.
BinauralEffect(b, cfg) ==
    IF ~cfg.enabled \/ cfg.binauralPreset = "off" THEN disposeBinaural(b)
    ELSE IF electron
    THEN IF ctx = "none" THEN b
         ELSE IF ctx = "suspended"
         THEN [NewBinauralAttempt(b, cfg, "resume") EXCEPT !.cleanup = "native"]
         ELSE LET s == NewBinauralAttempt(b, cfg, "done")
              IN  [runNativeBinaural(s, s.cur) EXCEPT !.cleanup = "native"]
    ELSE [NewBinauralAttempt(b, cfg, "getTone") EXCEPT
              !.binauralCancelledRef = FALSE, !.cleanup = "tone"]

\* ============================================================= ambient layer
\* player: "none", "idle" (constructed, not started), "playing", "disposed".
\* gain:   "none", "live", "disposed".
\* audio (HTMLAudioElement, Electron): "none", "playing" (play() called),
\*         "idle" (play() rejected), "released" (paused and src cleared).
\* blob (object URL, Electron): "none", "live", "revoked".
NoAmbientNodes ==
    [ player |-> "none", gain |-> "none", value |-> 0, audio |-> "none", blob |-> "none" ]

\* pc: "getTone", "toneStart" (the two awaits of the context gate), "load"
\* (first load pending), "backoff" (800 ms timer pending), "retry" (second
\* load pending), "fetch", "play" (Electron), "done".
\* outcome: "none", "started", "error" (load-error raised), "discarded".
NoAmbientAttempt ==
    [ pc |-> "none", preset |-> "off", volume |-> 0,
      prevPlayer |-> 0, prevGain |-> 0, loads |-> 0, outcome |-> "none" ]

NoAmbientTimer == [ st |-> "none", prevPlayer |-> 0, prevGain |-> 0, stays |-> FALSE ]

\* The attempt has run its last callback; its captured references are dropped.
Ended(at, outcome) ==
    [at EXCEPT !.pc = "done", !.outcome = outcome, !.prevPlayer = 0, !.prevGain = 0]

AmbInit ==
    [ ambientCancelledRef |-> FALSE,
      playerRef |-> 0, ambientGainRef |-> 0,
      nativeAmbientAudioRef |-> 0, nativeAmbientBlobUrlRef |-> 0,
      cleanup |-> "none", cur |-> 0, n |-> 0,
      att |-> [i \in Att |-> NoAmbientAttempt],
      node |-> [i \in Att |-> NoAmbientNodes],
      \* stays: the layer stayed enabled in the commit that ran the cleanup
      \* (kept for the statement of the crossfade policy; the code does not read it)
      timer |-> [i \in Att |-> NoAmbientTimer] ]

\* a.pause(); a.src = '' on the audio element of attempt i.
ReleaseAudio(node, i) ==
    IF i = 0 \/ node[i].audio = "none" THEN node
    ELSE [node EXCEPT ![i].audio = "released"]

RevokeBlob(node, i) ==
    IF i = 0 \/ node[i].blob = "none" THEN node
    ELSE [node EXCEPT ![i].blob = "revoked"]

DisposePlayerAndGain(node, p, g) ==
    DisposeNode(DisposeNode(node, p, "player"), g, "gain")

disposeAmbient(a) ==
    [a EXCEPT
        !.node = ReleaseAudio(DisposePlayerAndGain(@, a.playerRef, a.ambientGainRef),
                              a.nativeAmbientAudioRef),
        !.playerRef = 0, !.ambientGainRef = 0, !.nativeAmbientAudioRef = 0]

\* The cleanup returned by the Electron path of the ambient effect.
NativeAmbientCleanup(a) ==
    [a EXCEPT
        !.node = RevokeBlob(ReleaseAudio(@, a.nativeAmbientAudioRef),
                            a.nativeAmbientBlobUrlRef),
        !.nativeAmbientAudioRef = 0, !.nativeAmbientBlobUrlRef = 0]

\* The cleanup returned by the Tone path of the ambient effect.
ToneAmbientCleanup(a, fadeOut, stays) ==
    LET prevPlayer == a.playerRef
        prevGain == a.ambientGainRef
        ramp == fadeOut /\ prevGain # 0 /\ toneModuleRef
    IN  [a EXCEPT !.ambientCancelledRef = TRUE,
                  !.playerRef = 0, !.ambientGainRef = 0,
                  !.timer[a.cur] = [st |-> "pending", prevPlayer |-> prevPlayer,
                                    prevGain |-> prevGain, stays |-> stays],
                  !.node = IF ramp THEN [@ EXCEPT ![prevGain].value = 0] ELSE @]

AmbientCleanup(a, fadeOut, stays) ==
    CASE a.cleanup = "tone" -> [ToneAmbientCleanup(a, fadeOut, stays) EXCEPT !.cleanup = "none", !.cur = 0]
      [] a.cleanup = "native" -> [NativeAmbientCleanup(a) EXCEPT !.cleanup = "none", !.cur = 0]
      [] OTHER -> [a EXCEPT !.cur = 0]

NewAmbientAttempt(a, cfg, pc) ==
    [a EXCEPT !.n = @ + 1, !.cur = a.n + 1,
              !.att[a.n + 1] = [NoAmbientAttempt EXCEPT !.pc = pc,
                                 !.preset = cfg.ambientPreset,
                                 !.volume = cfg.ambientVolume]]

\* The body of the ambient effect: the new layer state.
AmbientEffect(a, cfg) ==
    IF ~cfg.enabled \/ cfg.ambientPreset = "off" THEN disposeAmbient(a)
    ELSE IF cfg.ambientPreset \notin AMBIENT_PRESETS THEN disposeAmbient(a)
    ELSE IF electron
    THEN [NewAmbientAttempt(a, cfg, "fetch") EXCEPT
              !.nativeAmbientBlobUrlRef = 0, !.cleanup = "native"]
    ELSE [NewAmbientAttempt(a, cfg, "load") EXCEPT
              !.att[a.n + 1].pc = "getTone",
              !.ambientCancelledRef = FALSE, !.cleanup = "tone"]

\* The body of the ambient effect: the new load-error signal.
AmbientEffectError(err, cfg) ==
    IF ~cfg.enabled \/ cfg.ambientPreset = "off" THEN "null"
    ELSE IF cfg.ambientPreset \notin AMBIENT_PRESETS THEN err
    ELSE "null"

\* The part of startAmbient after `await Tone.start()`: construct gain and
\* player, overwrite the refs, and issue the first load.
startAmbientBody(a, i) ==
    IF a.ambientCancelledRef
    THEN [a EXCEPT !.att[i] = Ended(@, "discarded")]
    ELSE [a EXCEPT !.att[i] = [@ EXCEPT !.pc = "load", !.loads = 1,
                                        !.prevPlayer = a.playerRef,
                                        !.prevGain = a.ambientGainRef],
                   !.node[i] = [@ EXCEPT !.player = "idle", !.gain = "live",
                                         !.value = a.att[i].volume],
                   !.ambientGainRef = i, !.playerRef = i]

\* The then-callback of player.load(url).
LoadSucceeded(a, i) ==
    LET at == a.att[i]
        cancelled == a.ambientCancelledRef
        refMatch == a.playerRef = i
        notDisposed == a.node[i].player # "disposed"
        prevGone == DisposePlayerAndGain(a.node, at.prevPlayer, at.prevGain)
    IN  IF cancelled
        THEN [a EXCEPT !.node = DisposePlayerAndGain(prevGone, i, i),
                       !.att[i] = Ended(@, "discarded")]
        ELSE IF refMatch /\ notDisposed
        THEN [a EXCEPT !.node = [prevGone EXCEPT ![i].player = "playing"],
                       !.att[i] = Ended(@, "started")]
        ELSE [a EXCEPT !.node = DisposePlayerAndGain(prevGone, i, i),
                       !.att[i] = Ended(@, "discarded")]

LoadSucceededError(a, err) ==
    IF a.ambientCancelledRef THEN err ELSE "null"

\* LoadFailed with the retry argument ignored: every failure schedules a retry.
LoadFailedAlwaysRetries(a, i, retry) ==
    IF a.ambientCancelledRef
    THEN [a EXCEPT !.att[i] = Ended(@, "discarded")]
    ELSE [a EXCEPT !.att[i].pc = "backoff"]

\* The catch-callback of player.load(url); retry is the argument of tryLoad.
LoadFailed(a, i, retry) ==
    IF a.ambientCancelledRef
    THEN [a EXCEPT !.att[i] = Ended(@, "discarded")]
    ELSE IF ~retry
    THEN [a EXCEPT !.att[i].pc = "backoff"]
    ELSE [a EXCEPT !.att[i] = Ended(@, "error")]

LoadFailedError(a, i, retry, err) ==
    IF ~a.ambientCancelledRef /\ retry THEN a.att[i].preset ELSE err

\* The catch block of startAmbient (the context gate rejected).
StartAmbientThrew(a, i) ==
    IF a.ambientCancelledRef
    THEN [a EXCEPT !.att[i] = Ended(@, "discarded")]
    ELSE [disposeAmbient(a) EXCEPT !.att[i] = Ended(@, "error")]

\* StartAmbientThrewError with the rejection swallowed: the signal is not set.
StartAmbientThrewErrorSilent(a, i, err) == err

StartAmbientThrewError(a, i, err) ==
    IF a.ambientCancelledRef THEN err ELSE a.att[i].preset

\* The then-callback of fetch(url) and res.blob() (Electron): build the object
\* URL and the audio element, overwrite the refs, call play().
NativeFetched(a, i) ==
    [a EXCEPT !.node[i] = [@ EXCEPT !.blob = "live", !.audio = "playing",
                                    !.value = a.att[i].volume],
              !.nativeAmbientBlobUrlRef = i, !.nativeAmbientAudioRef = i,
              !.att[i].pc = "play", !.att[i].loads = 1]

\* The catch-callback of the fetch chain (Electron): HTTP error, network
\* error, or a rejected play().
NativeFailed(a, i) ==
    [a EXCEPT !.att[i] = Ended([@ EXCEPT !.loads = 1], "error"),
              !.node[i].audio = IF @ = "playing" THEN "idle" ELSE @]

NativePlaying(a, i) ==
    [a EXCEPT !.att[i] = Ended(@, "started")]

\* ============================================================ volume effect
VolumeEffect(node, ref, v) ==
    IF ref = 0 THEN node ELSE [node EXCEPT ![ref].value = v]

BinauralVolume(b, cfg) ==
    [b EXCEPT !.node = VolumeEffect(@,
        IF electron THEN b.nativeBinauralGainRef ELSE b.binauralGainRef,
        cfg.binauralVolume)]

AmbientVolume(a, cfg) ==
    [a EXCEPT !.node = VolumeEffect(@,
        IF electron THEN a.nativeAmbientAudioRef ELSE a.ambientGainRef,
        cfg.ambientVolume)]

\* ============================================================ context gate
\* getTone() as called from a start handler.  A call is "idle" (not made),
\* "resume" (awaiting electronContextRef.current.resume()), "import" (awaiting
\* import('tone')), "resolved" or "rejected".  A resolved call has a result:
\* the module namespace object ([kind |-> "module", id |-> instance]) or the
\* object literal the Electron branch returns, a new object at each call
\* ([kind |-> "object", id |-> call]).
Calls == 1..MaxCalls

NoResult == [kind |-> "none", id |-> 0]

GateInit ==
    [ ctxs |-> 0,     \* AudioContext objects constructed (new Ctx())
      mods |-> 0,     \* evaluations of the module 'tone'
      call |-> [k \in Calls |-> [pc |-> "idle", result |-> NoResult]] ]

\* The synchronous part of getTone(), up to its first await.
getToneEnter(g, k) ==
    IF electron
    THEN [g EXCEPT !.ctxs = IF ctx = "none" THEN @ + 1 ELSE @,
                   !.call[k].pc = "resume"]
    ELSE IF toneModuleRef
    THEN [g EXCEPT !.call[k] = [pc |-> "resolved", result |-> [kind |-> "module", id |-> g.mods]]]
    ELSE [g EXCEPT !.call[k].pc = "import"]

\* import('tone') resolves: the module is evaluated by the first import that
\* completes; every later one resolves to the same namespace object.
getToneImported(g, k) ==
    LET m == IF g.mods = 0 THEN 1 ELSE g.mods
    IN  [g EXCEPT !.mods = m,
                  !.call[k] = [pc |-> "resolved", result |-> [kind |-> "module", id |-> m]]]

\* resume() resolves (Electron): `return {} as Record<string, unknown>`.
getToneResumed(g, k) ==
    [g EXCEPT !.call[k] = [pc |-> "resolved", result |-> [kind |-> "object", id |-> k]]]

\* ================================================================= the hook
\* One effect for both layers: the binaural effect also depends on ambientPreset.
BinauralDepsOneEffect == {"enabled", "binauralPreset", "ambientPreset", "fadeIn", "fadeOut"}

\* The binaural effect also depends on binauralVolume: a volume change rebuilds.
BinauralDepsWithVolume == {"enabled", "binauralPreset", "binauralVolume", "fadeIn", "fadeOut"}

BinauralDeps == {"enabled", "binauralPreset", "fadeIn", "fadeOut"}
AmbientDeps == {"enabled", "ambientPreset", "fadeIn", "fadeOut"}
VolumeDeps == {"binauralVolume", "ambientVolume"}

FieldValues(f) ==
    CASE f = "enabled" -> BOOLEAN
      [] f = "binauralPreset" -> BinauralChoices
      [] f = "ambientPreset" -> AmbientChoices
      [] f = "binauralVolume" -> VolumeChoices
      [] f = "ambientVolume" -> VolumeChoices
      [] f = "fadeIn" -> BOOLEAN
      [] f = "fadeOut" -> BOOLEAN

Fields == BinauralDeps \cup AmbientDeps \cup VolumeDeps

\* The layer stays enabled under cfg (the ambient effect will start an attempt).
AmbientStays(cfg) ==
    cfg.enabled /\ cfg.ambientPreset # "off" /\ cfg.ambientPreset \in AMBIENT_PRESETS

\* Snapshots the hook may be mounted with (the stored configuration).
InitialConfigs ==
    { [DEFAULT_NOISE_CONFIG EXCEPT !.enabled = e, !.binauralPreset = b,
                                   !.ambientPreset = p, !.fadeOut = fo] :
        e \in BOOLEAN, b \in {"off", "focus"}, p \in {"off", "cafe"}, fo \in BOOLEAN }

\* First render: every effect body runs once with the initial snapshot.
InitAudio(cfgs) ==
    /\ gate = GateInit
    /\ electron \in BOOLEAN
    /\ config \in cfgs
    /\ mounted = TRUE
    /\ changes = 0
    /\ toneModuleRef = FALSE
    /\ ctx = "none"
    /\ bin = BinauralVolume(BinauralEffect(BinInit, config), config)
    /\ amb = AmbientVolume(AmbientEffect(AmbInit, config), config)
    /\ ambientLoadError = AmbientEffectError("null", config)

InitWith(cfgs) ==
    /\ InitAudio(cfgs)
    /\ ui = UiInit
    /\ phase = PhaseInit
    /\ stored = StoredInit
    /\ timer = TimerInit
    /\ day = DayInit

Init == InitWith(InitialConfigs)

\* A new snapshot differing from the old one in one field: React runs the
\* cleanups of the effects whose dependencies changed, then their bodies.
ApplyConfig(f, v) ==
    LET cfg == [config EXCEPT ![f] = v]
        b1 == IF f \in BinauralDeps THEN BinauralEffect(BinauralCleanup(bin, config.fadeOut), cfg) ELSE bin
        a1 == IF f \in AmbientDeps
              THEN AmbientEffect(AmbientCleanup(amb, config.fadeOut, AmbientStays(cfg)), cfg) ELSE amb
    IN  /\ mounted
        /\ changes < MaxChanges
        /\ v # config[f]
        /\ config' = cfg
        /\ changes' = changes + 1
        /\ bin' = IF f \in VolumeDeps THEN BinauralVolume(b1, cfg) ELSE b1
        /\ amb' = IF f \in VolumeDeps THEN AmbientVolume(a1, cfg) ELSE a1
        /\ ambientLoadError' = IF f \in AmbientDeps
                               THEN AmbientEffectError(ambientLoadError, cfg)
                               ELSE ambientLoadError
        /\ UNCHANGED << gate, electron, mounted, toneModuleRef, ctx >>

\* The same, from a control that touches nothing but the configuration.
Apply(f, v) == ApplyConfig(f, v) /\ UNCHANGED appVars

\* disposeAll, the cleanup of the first effect.
disposeAllBinaural(b) ==
    IF electron THEN disposeNativeBinaural(b) ELSE disposeBinaural(b)

\* Unmount: the cleanups of all effects run in declaration order.
Unmount ==
    /\ mounted
    /\ mounted' = FALSE
    /\ bin' = BinauralCleanup(disposeAllBinaural(bin), config.fadeOut)
    /\ amb' = AmbientCleanup(disposeAmbient(amb), config.fadeOut, FALSE)
    /\ UNCHANGED << gate, appVars, electron, config, changes, toneModuleRef, ctx, ambientLoadError >>

\* setAmbientLoadError from a callback: component state exists while mounted.
SetError(e) ==
    ambientLoadError' = IF mounted THEN e ELSE ambientLoadError

\* getTone() called by a start handler (AudioPanel.onBeforeStart, handleStart).
GetToneCalled ==
    /\ mounted
    /\ IF electron
       THEN /\ ctx = "none"
            /\ ctx' \in {"suspended", "running"}
            /\ UNCHANGED toneModuleRef
       ELSE /\ ~toneModuleRef
            /\ toneModuleRef' = TRUE
            /\ UNCHANGED ctx
    /\ UNCHANGED << gate, appVars, electron, mounted, config, changes, bin, amb, ambientLoadError >>

\* electronContextRef.current.resume() resolves.
ContextResumed ==
    /\ ctx = "suspended"
    /\ ctx' = "running"
    /\ UNCHANGED << gate, appVars, electron, mounted, config, changes, toneModuleRef, bin, amb, ambientLoadError >>

\* ------------------------------------------------- binaural callbacks
\* `await getTone()` of startBinaural resolves.
BinauralGetToneResolved(i) ==
    /\ bin.att[i].pc = "getTone"
    /\ bin' = [bin EXCEPT !.att[i].pc = "toneStart"]
    /\ toneModuleRef' = TRUE
    /\ UNCHANGED << gate, appVars, electron, mounted, config, changes, ctx, amb, ambientLoadError >>

\* `await Tone.start()` of startBinaural resolves.
BinauralToneStarted(i) ==
    /\ bin.att[i].pc = "toneStart"
    /\ bin' = [startBinauralBody(bin, i) EXCEPT !.att[i].pc = "done"]
    /\ UNCHANGED << gate, appVars, electron, mounted, config, changes, toneModuleRef, ctx, amb, ambientLoadError >>

\* The gate rejects: startBinaural().catch, or the catch of ctx.resume().
BinauralGateRejected(i) ==
    /\ bin.att[i].pc \in {"getTone", "toneStart", "resume"}
    /\ bin' = [bin EXCEPT !.att[i].pc = "done"]
    /\ UNCHANGED << gate, appVars, electron, mounted, config, changes, toneModuleRef, ctx, amb, ambientLoadError >>

\* ctx.resume().then(() => runNativeBinaural()) (Electron).
BinauralResumed(i) ==
    /\ bin.att[i].pc = "resume"
    /\ ctx = "running"
    /\ bin' = [runNativeBinaural(bin, i) EXCEPT !.att[i].pc = "done"]
    /\ UNCHANGED << gate, appVars, electron, mounted, config, changes, toneModuleRef, ctx, amb, ambientLoadError >>

\* setTimeout(() => disposeBinauralNodes(prev), 1100 or 0) fires.
BinauralTimerFired(i) ==
    /\ bin.timer[i].st = "pending"
    /\ bin' = [disposeBinauralNodes(bin, bin.timer[i].prev) EXCEPT !.timer[i] = [st |-> "none", prev |-> NoPrev]]
    /\ UNCHANGED << gate, appVars, electron, mounted, config, changes, toneModuleRef, ctx, amb, ambientLoadError >>

\* -------------------------------------------------- ambient callbacks
AmbientGetToneResolved(i) ==
    /\ amb.att[i].pc = "getTone"
    /\ amb' = [amb EXCEPT !.att[i].pc = "toneStart"]
    /\ toneModuleRef' = TRUE
    /\ UNCHANGED << gate, appVars, electron, mounted, config, changes, ctx, bin, ambientLoadError >>

AmbientToneStarted(i) ==
    /\ amb.att[i].pc = "toneStart"
    /\ amb' = startAmbientBody(amb, i)
    /\ UNCHANGED << gate, appVars, electron, mounted, config, changes, toneModuleRef, ctx, bin, ambientLoadError >>

\* AmbientGateRejected with disposeAll() in place of disposeAmbient().
AmbientGateRejectedDisposesAll(i) ==
    /\ amb.att[i].pc \in {"getTone", "toneStart"}
    /\ amb' = StartAmbientThrew(amb, i)
    /\ SetError(StartAmbientThrewError(amb, i, ambientLoadError))
    /\ bin' = IF amb.ambientCancelledRef THEN bin ELSE disposeAllBinaural(bin)
    /\ UNCHANGED << appVars, gate, electron, mounted, config, changes, toneModuleRef, ctx >>

\* The catch block of startAmbient runs: the context gate rejected.
AmbientGateRejected(i) ==
    /\ amb.att[i].pc \in {"getTone", "toneStart"}
    /\ amb' = StartAmbientThrew(amb, i)
    /\ SetError(StartAmbientThrewError(amb, i, ambientLoadError))
    /\ UNCHANGED << gate, appVars, electron, mounted, config, changes, toneModuleRef, ctx, bin >>

AmbientLoadSucceeded(i) ==
    /\ amb.att[i].pc \in {"load", "retry"}
    /\ amb' = LoadSucceeded(amb, i)
    /\ SetError(LoadSucceededError(amb, ambientLoadError))
    /\ UNCHANGED << gate, appVars, electron, mounted, config, changes, toneModuleRef, ctx, bin >>

AmbientLoadFailed(i) ==
    /\ amb.att[i].pc \in {"load", "retry"}
    /\ amb' = LoadFailed(amb, i, amb.att[i].pc = "retry")
    /\ SetError(LoadFailedError(amb, i, amb.att[i].pc = "retry", ambientLoadError))
    /\ UNCHANGED << gate, appVars, electron, mounted, config, changes, toneModuleRef, ctx, bin >>

\* setTimeout(() => tryLoad(true), 800) fires: player.load(url) again.
AmbientBackoffElapsed(i) ==
    /\ amb.att[i].pc = "backoff"
    /\ amb' = [amb EXCEPT !.att[i].pc = "retry",
                          \* loads counts 1, 2, "more than two" (3)
                          !.att[i].loads = IF @ < 3 THEN @ + 1 ELSE @]
    /\ UNCHANGED << gate, appVars, electron, mounted, config, changes, toneModuleRef, ctx, bin, ambientLoadError >>

\* setTimeout(disposeCaptured, 1100 or 0) fires.
AmbientTimerFired(i) ==
    /\ amb.timer[i].st = "pending"
    /\ amb' = [amb EXCEPT !.node = DisposePlayerAndGain(@, amb.timer[i].prevPlayer,
                                                       amb.timer[i].prevGain),
                          !.timer[i] = NoAmbientTimer]
    /\ UNCHANGED << gate, appVars, electron, mounted, config, changes, toneModuleRef, ctx, bin, ambientLoadError >>

NativeFetchSucceeded(i) ==
    /\ amb.att[i].pc = "fetch"
    /\ amb' = NativeFetched(amb, i)
    /\ UNCHANGED << gate, appVars, electron, mounted, config, changes, toneModuleRef, ctx, bin, ambientLoadError >>

NativeFetchFailed(i) ==
    /\ amb.att[i].pc = "fetch"
    /\ amb' = NativeFailed(amb, i)
    /\ SetError(amb.att[i].preset)
    /\ UNCHANGED << gate, appVars, electron, mounted, config, changes, toneModuleRef, ctx, bin >>

\* audio.play() resolves: only while the element has not been paused.
NativePlayResolved(i) ==
    /\ amb.att[i].pc = "play"
    /\ amb.node[i].audio = "playing"
    /\ amb' = NativePlaying(amb, i)
    /\ UNCHANGED << gate, appVars, electron, mounted, config, changes, toneModuleRef, ctx, bin, ambientLoadError >>

\* audio.play() rejects (not allowed, or aborted by pause()).
NativePlayRejected(i) ==
    /\ amb.att[i].pc = "play"
    /\ amb' = NativeFailed(amb, i)
    /\ SetError(amb.att[i].preset)
    /\ UNCHANGED << gate, appVars, electron, mounted, config, changes, toneModuleRef, ctx, bin >>

BinauralCallbacks ==
    \/ \E i \in Att : BinauralGetToneResolved(i)
    \/ \E i \in Att : BinauralToneStarted(i)
    \/ \E i \in Att : BinauralGateRejected(i)
    \/ \E i \in Att : BinauralResumed(i)
    \/ \E i \in Att : BinauralTimerFired(i)

AmbientCallbacks ==
    \/ \E i \in Att : AmbientGetToneResolved(i)
    \/ \E i \in Att : AmbientToneStarted(i)
    \/ \E i \in Att : AmbientGateRejected(i)
    \/ \E i \in Att : AmbientLoadSucceeded(i)
    \/ \E i \in Att : AmbientLoadFailed(i)
    \/ \E i \in Att : AmbientBackoffElapsed(i)
    \/ \E i \in Att : AmbientTimerFired(i)
    \/ \E i \in Att : NativeFetchSucceeded(i)
    \/ \E i \in Att : NativeFetchFailed(i)
    \/ \E i \in Att : NativePlayResolved(i)
    \/ \E i \in Att : NativePlayRejected(i)

Next ==
    \/ \E f \in Fields : \E v \in FieldValues(f) : Apply(f, v)
    \/ Unmount
    \/ GetToneCalled
    \/ ContextResumed
    \/ BinauralCallbacks
    \/ AmbientCallbacks

Spec == Init /\ [][Next]_vars

\* The binaural layer alone: the ambient preset stays "off".
BinauralFields == {"enabled", "binauralPreset", "fadeOut"}

InitBinaural == InitWith({c \in InitialConfigs : c.ambientPreset = "off"})

NextBinaural ==
    \/ \E f \in BinauralFields : \E v \in FieldValues(f) : Apply(f, v)
    \/ Unmount
    \/ GetToneCalled
    \/ ContextResumed
    \/ BinauralCallbacks

SpecBinaural == InitBinaural /\ [][NextBinaural]_vars

\* The ambient layer alone: the binaural preset stays "off".
AmbientFields == {"enabled", "ambientPreset", "fadeOut"}

InitAmbient == InitWith({c \in InitialConfigs : c.binauralPreset = "off"})

NextAmbient ==
    \/ \E f \in AmbientFields : \E v \in FieldValues(f) : Apply(f, v)
    \/ Unmount
    \/ AmbientCallbacks

SpecAmbient == InitAmbient /\ [][NextAmbient]_vars

\* The ambient layer under fair scheduling of the callbacks of every attempt:
\* a pending promise settles and a pending backoff timer fires.
RetryFields == {"enabled", "ambientPreset"}

RetryValues(f) == IF f = "enabled" THEN BOOLEAN ELSE {"off", "cafe", "rain"}

InitRetry == InitWith({c \in InitialConfigs : c.binauralPreset = "off" /\ ~c.fadeOut})

ApplyRetry(f, v) == changes < MaxRetryChanges /\ Apply(f, v)

NextRetry ==
    \/ \E f \in RetryFields : \E v \in RetryValues(f) : ApplyRetry(f, v)
    \/ Unmount
    \/ AmbientCallbacks

\* Any callback of ambient attempt i other than the disposal timer.
AmbientStep(i) ==
    \/ AmbientGetToneResolved(i) \/ AmbientToneStarted(i) \/ AmbientGateRejected(i)
    \/ AmbientLoadSucceeded(i) \/ AmbientLoadFailed(i) \/ AmbientBackoffElapsed(i)
    \/ NativeFetchSucceeded(i) \/ NativeFetchFailed(i)
    \/ NativePlayResolved(i) \/ NativePlayRejected(i)

SpecRetry == InitRetry /\ [][NextRetry]_vars /\ \A i \in Att : WF_vars(AmbientStep(i))

\* Both layers together: presets and volumes change, the layers stay enabled
\* and the hook stays mounted.
LayerFields == {"binauralPreset", "ambientPreset", "binauralVolume", "ambientVolume"}

InitLayers == InitWith({c \in InitialConfigs : c.enabled})

ApplyLayers(f, v) == changes < MaxLayerChanges /\ Apply(f, v)

NextLayers ==
    \/ \E f \in LayerFields : \E v \in FieldValues(f) : ApplyLayers(f, v)
    \/ GetToneCalled
    \/ ContextResumed
    \/ BinauralCallbacks
    \/ AmbientCallbacks

SpecLayers == InitLayers /\ [][NextLayers]_vars

\* The context gate alone: start handlers call getTone(), the calls overlap.
GateCalled(k) ==
    /\ gate.call[k].pc = "idle"
    /\ gate' = getToneEnter(gate, k)
    /\ ctx' = IF electron /\ ctx = "none" THEN "suspended" ELSE ctx
    /\ UNCHANGED << appVars, electron, mounted, config, changes, toneModuleRef, bin, amb, ambientLoadError >>

GateImportResolved(k) ==
    /\ gate.call[k].pc = "import"
    /\ gate' = getToneImported(gate, k)
    /\ toneModuleRef' = TRUE
    /\ UNCHANGED << appVars, electron, mounted, config, changes, ctx, bin, amb, ambientLoadError >>

GateResumeResolved(k) ==
    /\ gate.call[k].pc = "resume"
    /\ gate' = getToneResumed(gate, k)
    /\ ctx' = "running"
    /\ UNCHANGED << appVars, electron, mounted, config, changes, toneModuleRef, bin, amb, ambientLoadError >>

\* import('tone') or resume() rejects: getTone() rejects.
GateRejected(k) ==
    /\ gate.call[k].pc \in {"import", "resume"}
    /\ gate' = [gate EXCEPT !.call[k].pc = "rejected"]
    /\ UNCHANGED << appVars, electron, mounted, config, changes, toneModuleRef, ctx, bin, amb, ambientLoadError >>

InitGate == InitWith({c \in InitialConfigs : ~c.enabled /\ c.fadeOut})

NextGate ==
    \/ \E k \in Calls : GateCalled(k)
    \/ \E k \in Calls : GateImportResolved(k)
    \/ \E k \in Calls : GateResumeResolved(k)
    \/ \E k \in Calls : GateRejected(k)

SpecGate == InitGate /\ [][NextGate]_vars

\* ------------------------------------------------------ the start handlers
\* setNoiseConfig(c => ({...c, enabled: v})) and the render it causes: the
\* hook's effects, and AudioPanel's effect that clears startError on enable.
\* A snapshot with the same field values runs no effect.
SetEnabled(v, u) ==
    IF config.enabled = v
    THEN ui' = u /\ UNCHANGED audioVars
    ELSE /\ ApplyConfig("enabled", v)
         /\ ui' = IF v THEN [u EXCEPT !.startError = "null"] ELSE u

\* getTone() entered by a handler: under Electron the context is constructed.
UnlockEntered ==
    /\ ctx' = IF electron /\ ctx = "none" THEN "suspended" ELSE ctx
    /\ UNCHANGED << gate, electron, mounted, config, changes, toneModuleRef, bin, amb, ambientLoadError >>

\* handleToggle with the toggle applied before the unlock is awaited.
PressStartUngated ==
    /\ mounted /\ ~config.enabled /\ ~ui.starting
    /\ SetEnabled(TRUE, ui)
    /\ UNCHANGED << phase, stored, timer, day >>

\* handleToggle while disabled: setStarting(true), then await onBeforeStart().
PressStart ==
    /\ mounted /\ ~config.enabled /\ ~ui.starting
    /\ ui' = [ui EXCEPT !.starting = TRUE, !.toggle = "getTone"]
    /\ UnlockEntered
    /\ UNCHANGED << phase, stored, timer, day >>

\* handleToggle while enabled: onToggle() and return.
PressStop ==
    /\ mounted /\ config.enabled /\ ~ui.starting
    /\ SetEnabled(~config.enabled, ui)
    /\ UNCHANGED << phase, stored, timer, day >>

\* `await getTone()` of onBeforeStart resolves.  Under Electron the result has
\* no start function: onBeforeStart returns, onToggle() runs, then finally.
ToggleGetToneResolved ==
    /\ ui.toggle = "getTone"
    /\ IF electron
       THEN /\ ctx = "running"
            /\ SetEnabled(~config.enabled, [ui EXCEPT !.starting = FALSE, !.toggle = "idle"])
       ELSE /\ ui' = [ui EXCEPT !.toggle = "start"]
            /\ toneModuleRef' = TRUE
            /\ UNCHANGED << gate, electron, mounted, config, changes, ctx, bin, amb, ambientLoadError >>
    /\ UNCHANGED << phase, stored, timer, day >>

\* `await start()` of onBeforeStart resolves: onToggle(), then finally.
ToggleStartResolved ==
    /\ ui.toggle = "start"
    /\ SetEnabled(~config.enabled, [ui EXCEPT !.starting = FALSE, !.toggle = "idle"])
    /\ UNCHANGED << phase, stored, timer, day >>

\* onBeforeStart rejects: catch calls onStartError, then finally.
ToggleRejected ==
    /\ ui.toggle \in {"getTone", "start"}
    /\ ui' = [ui EXCEPT !.starting = FALSE, !.toggle = "idle", !.startError = "error"]
    /\ UNCHANGED audioVars
    /\ UNCHANGED << phase, stored, timer, day >>

\* handleStart of AppContent (the timer's Start): in a work session it clears
\* audioStartError and starts the unlock chain; then timer.start().  One chain
\* is followed at a time.
HandleStart ==
    /\ mounted /\ ui.timerStart = "idle"
    /\ IF timer.isWorkSession
       THEN /\ ui' = [ui EXCEPT !.audioStartError = "null", !.timerStart = "getTone"]
            /\ UnlockEntered
       ELSE UNCHANGED << ui, audioVars >>
    /\ timer' = TimerAfter("start", start(TimerNow))
    /\ UNCHANGED << phase, stored, day >>

StartGetToneResolved ==
    /\ ui.timerStart = "getTone"
    /\ IF electron
       THEN /\ ctx = "running"
            /\ SetEnabled(TRUE, [ui EXCEPT !.timerStart = "idle"])
       ELSE /\ ui' = [ui EXCEPT !.timerStart = "start"]
            /\ toneModuleRef' = TRUE
            /\ UNCHANGED << gate, electron, mounted, config, changes, ctx, bin, amb, ambientLoadError >>
    /\ UNCHANGED << phase, stored, timer, day >>

StartStartResolved ==
    /\ ui.timerStart = "start"
    /\ SetEnabled(TRUE, [ui EXCEPT !.timerStart = "idle"])
    /\ UNCHANGED << phase, stored, timer, day >>

StartRejected ==
    /\ ui.timerStart \in {"getTone", "start"}
    /\ ui' = [ui EXCEPT !.timerStart = "idle", !.audioStartError = "error"]
    /\ UNCHANGED audioVars
    /\ UNCHANGED << phase, stored, timer, day >>

\* handleStop of AppContent: disables the audio and stops the timer.
HandleStop ==
    /\ mounted
    /\ SetEnabled(FALSE, ui)
    /\ timer' = TimerAfter("stop", stop(TimerNow))
    /\ UNCHANGED << phase, stored, day >>

InitStart == InitWith({c \in InitialConfigs : ~c.enabled /\ c.fadeOut})

NextStart ==
    \/ PressStart \/ PressStop
    \/ ToggleGetToneResolved \/ ToggleStartResolved \/ ToggleRejected
    \/ HandleStart \/ StartGetToneResolved \/ StartStartResolved \/ StartRejected
    \/ HandleStop
    \/ ContextResumed

SpecStart == InitStart /\ [][NextStart]_vars

\* --------------------------------------------------------- the beat branch
\* Frequencies are kept in half hertz, so that b/2 is exact for an odd b.
CARRIER_HZ == 200

BINAURAL_BEAT_HZ ==
    [ p \in {"focus", "study", "work", "relax", "rest", "energy", "calm"} |->
        CASE p = "focus" -> 20 [] p = "study" -> 10 [] p = "work" -> 40
          [] p = "relax" -> 6 [] p = "rest" -> 2 [] p = "energy" -> 25
          [] p = "calm" -> 14 ]

BinauralPresets == DOMAIN BINAURAL_BEAT_HZ \cup {"off", "block-noise"}

\* Values of Tone.now() at the start.
MaxNow == 3

leftFreq(beatHz) == 2 * CARRIER_HZ - beatHz
\* rightFreq with the sign of leftFreq.
rightFreqAsLeft(beatHz) == 2 * CARRIER_HZ - beatHz
rightFreq(beatHz) == 2 * CARRIER_HZ + beatHz

\* The oscillator pair the beat branch constructs and starts for preset p:
\* Tone starts both at `when = Tone.now()`, the native path both at 0.
beatBranch(p, native, now) ==
    IF p \in DOMAIN BINAURAL_BEAT_HZ
    THEN LET when == IF native THEN 0 ELSE now
         IN  [ preset |-> p, native |-> native,
               left |-> [ frequency |-> leftFreq(BINAURAL_BEAT_HZ[p]), startedAt |-> when ],
               right |-> [ frequency |-> rightFreq(BINAURAL_BEAT_HZ[p]), startedAt |-> when ] ]
    ELSE [ preset |-> p ]

\* A session of preset p passes its gate and runs the branch.
BeatStarted(p, now) ==
    /\ mounted
    /\ phase' = beatBranch(p, electron, now)
    /\ UNCHANGED << audioVars, ui, stored, timer, day >>

NextPhase == \E p \in BinauralPresets, now \in 0..MaxNow : BeatStarted(p, now)

SpecPhase == InitWith(InitialConfigs) /\ [][NextPhase]_vars

\* ------------------------------------------------------ migrateNoiseConfig
\* A stored record maps each key to the JSON value it holds, written as a
\* string, or to "absent"; "null" is JSON null.
StoredKeys ==
    {"enabled", "binauralPreset", "ambientPreset", "binauralVolume", "ambientVolume",
     "preset", "volume"}

BINAURAL_PRESETS ==
    {"off", "focus", "study", "work", "relax", "rest", "energy", "calm", "block-noise"}
PANEL_AMBIENT_PRESETS == {"off", "cafe", "coffee-shop", "airport", "rain", "library"}

\* Values a key is drawn from: values the controls write, values no control
\* writes, and the legacy fields of earlier versions.
StoredValues(k) ==
    CASE k = "enabled" -> {"absent", "true"}
      [] k = "binauralPreset" -> {"absent", "null", "off", "focus", "not-a-preset"}
      [] k = "ambientPreset" -> {"absent", "null", "cafe"}
      [] k = "binauralVolume" -> {"absent", "null", "0", "0.8"}
      [] k = "ambientVolume" -> {"absent", "0.8"}
      [] k = "preset" -> {"absent", "focus", "rain", "white"}
      [] k = "volume" -> {"absent", "0.3", "loud"}

JsonNumbers == {"0", "0.3", "0.5", "0.8"}

StoredRecords ==
    { [k \in StoredKeys |->
          CASE k = "enabled" -> e [] k = "binauralPreset" -> bp [] k = "ambientPreset" -> ap
            [] k = "binauralVolume" -> bv [] k = "ambientVolume" -> av
            [] k = "preset" -> op [] k = "volume" -> ov] :
        e \in StoredValues("enabled"), bp \in StoredValues("binauralPreset"),
        ap \in StoredValues("ambientPreset"), bv \in StoredValues("binauralVolume"),
        av \in StoredValues("ambientVolume"), op \in StoredValues("preset"),
        ov \in StoredValues("volume") }

\* What localStorage may hold under the key: an object, or something else.
StoredInputs ==
    { [kind |-> "object", fields |-> f] : f \in StoredRecords }
    \cup { [kind |-> k, fields |-> [x \in StoredKeys |-> "absent"]] :
             k \in {"null", "array", "string", "number"} }

EmptyRecord == [k \in StoredKeys |-> "absent"]

PanelDefaults ==
    [k \in StoredKeys |->
        CASE k = "enabled" -> "false"
          [] k \in {"binauralPreset", "ambientPreset"} -> "off"
          [] k \in {"binauralVolume", "ambientVolume"} -> "0.5"
          [] OTHER -> "absent"]

Nullish(v) == v \in {"absent", "null"}
Falsy(v) == v \in {"absent", "null", "", "0", "false"}

\* { ...a, ...b }
Spread(a, b) == [k \in StoredKeys |-> IF b[k] # "absent" THEN b[k] ELSE a[k]]

\* The base without the defaults: a missing field stays missing.
BaseWithoutDefaults(safe) == safe

BaseOf(safe) == Spread(PanelDefaults, safe)

migrateNoiseConfig(s) ==
    LET safe == IF s.kind = "object" THEN s.fields ELSE EmptyRecord
        base == BaseOf(safe)
        oldPreset == safe["preset"]
        b0 == IF ~Nullish(base["binauralPreset"]) THEN base["binauralPreset"]
              ELSE IF oldPreset \in BINAURAL_PRESETS THEN oldPreset ELSE "off"
        a0 == IF ~Nullish(base["ambientPreset"]) THEN base["ambientPreset"]
              ELSE IF oldPreset \in PANEL_AMBIENT_PRESETS THEN oldPreset ELSE "off"
        legacy == ~Falsy(oldPreset) /\ Falsy(base["binauralPreset"]) /\ Falsy(base["ambientPreset"])
        binauralPreset == IF legacy /\ oldPreset \in BINAURAL_PRESETS THEN oldPreset ELSE b0
        ambientPreset == IF legacy /\ oldPreset \notin BINAURAL_PRESETS
                            /\ oldPreset \in PANEL_AMBIENT_PRESETS THEN oldPreset ELSE a0
        volume == IF safe["volume"] \in JsonNumbers THEN safe["volume"] ELSE "0.5"
    IN  [base EXCEPT !["binauralPreset"] = binauralPreset,
                     !["ambientPreset"] = ambientPreset,
                     !["binauralVolume"] = IF Nullish(@) THEN volume ELSE @,
                     !["ambientVolume"] = IF Nullish(@) THEN volume ELSE @]

\* AudioPanel's first render, with the stored value.
Migrate(s) ==
    /\ ~stored.made
    /\ stored' = [made |-> TRUE, in |-> s, out |-> migrateNoiseConfig(s)]
    /\ UNCHANGED << audioVars, ui, phase, timer, day >>

NextMigrate == \E s \in StoredInputs : Migrate(s)

SpecMigrate == InitWith({DEFAULT_NOISE_CONFIG}) /\ [][NextMigrate]_vars

\* ---------------------------------------------------------------- the timer
\* Work cycles completed before the model stops counting.
MaxCycle == 4
\* Seconds timeRemaining may be raised to by adjustTime.
MaxTime == 150

\* deltaSeconds of adjustTime: the minute buttons, and other integers.
AdjustChoices == {-60, -7, 60}

TimerStart ==
    /\ timer' = TimerAfter("start", start(TimerNow))
    /\ UNCHANGED << audioVars, ui, phase, stored, day >>

TimerPause ==
    /\ timer' = TimerAfter("pause", pause(TimerNow))
    /\ UNCHANGED << audioVars, ui, phase, stored, day >>

TimerStop ==
    /\ timer' = TimerAfter("stop", stop(TimerNow))
    /\ UNCHANGED << audioVars, ui, phase, stored, day >>

TimerSkip ==
    /\ timer.isWorkSession => timer.currentCycle < MaxCycle
    /\ timer' = TimerAfter("skip", skip(TimerNow))
    /\ UNCHANGED << audioVars, ui, phase, stored, day >>

TimerAdjust(deltaSeconds) ==
    /\ timer.timeRemaining + deltaSeconds <= MaxTime
    /\ timer' = TimerAfter("adjustTime", adjustTime(TimerNow, deltaSeconds))
    /\ UNCHANGED << audioVars, ui, phase, stored, day >>

TimerReset(duration) ==
    /\ timer' = TimerAfter("resetTimer", resetTimer(TimerNow, duration))
    /\ UNCHANGED << audioVars, ui, phase, stored, day >>

\* One second passes with the interval set.
TimerTick ==
    /\ timer.interval
    /\ timer.isWorkSession => timer.currentCycle < MaxCycle
    /\ timer' = TimerAfter("tick", tick(timer))
    /\ UNCHANGED << audioVars, ui, phase, stored, day >>

InitTimer ==
    /\ InitAudio({DEFAULT_NOISE_CONFIG})
    /\ ui = UiInit /\ phase = PhaseInit /\ stored = StoredInit /\ day = DayInit
    /\ timer \in { TimerWith(c) : c \in PomodoroConfigs }

NextTimer ==
    \/ TimerStart \/ TimerPause \/ TimerStop \/ TimerSkip
    \/ \E d \in AdjustChoices : TimerAdjust(d)
    \/ \E m \in {timer.config.workDuration, timer.config.shortBreakDuration,
                 timer.config.longBreakDuration} : TimerReset(m)
    \/ TimerTick

SpecTimer == InitTimer /\ [][NextTimer]_vars

\* ------------------------------------------------------------ getDayBlocks
\* Time is counted in half hours from the midnight of the day.
MaxSessions == 2
MaxTimeOfDay == 7
MaxLength == 3

\* The window's parameters (the defaults are 6 and 23).
dayStartHour == 1
dayEndHour == 2

startOfDay == dayStartHour * 2
\* dayEndHour:59:59.999, the last instant of the hour.
endOfDay == (dayEndHour + 1) * 2 - 1

Min2(x, y) == IF x < y THEN x ELSE y
Max2(x, y) == IF x > y THEN x ELSE y

\* Stored sessions of the date: start and focused time (totalMinutes).
WorkSessions ==
    { [ start |-> s, totalMinutes |-> m ] : s \in 0..MaxTimeOfDay, m \in 0..MaxLength }

SessionLists == UNION { [1..n -> WorkSessions] : n \in 0..MaxSessions }

\* .filter(totalMinutes > 0).map(start, end).filter(end > start)
RECURSIVE FilterSessions(_)
FilterSessions(l) ==
    IF l = << >> THEN << >>
    ELSE LET s == Head(l)
             e == [ start |-> s.start, end |-> s.start + s.totalMinutes ]
         IN  IF s.totalMinutes > 0 /\ e.end > e.start
             THEN << e >> \o FilterSessions(Tail(l))
             ELSE FilterSessions(Tail(l))

\* .sort((a, b) => a.start - b.start): stable insertion by start.
RECURSIVE InsertByStart(_, _)
InsertByStart(e, l) ==
    IF l = << >> THEN << e >>
    ELSE IF e.start < Head(l).start THEN << e >> \o l
    ELSE << Head(l) >> \o InsertByStart(e, Tail(l))

RECURSIVE SortByStart(_)
SortByStart(l) ==
    IF l = << >> THEN << >>
    ELSE InsertByStart(l[Len(l)], SortByStart(SubSeq(l, 1, Len(l) - 1)))

\* The loop over the sorted sessions, from `cursor` with `blocks` pushed so far.
RECURSIVE BlocksLoop(_, _, _, _)
BlocksLoop(l, cursor, blocks, includeInferredBreaks) ==
    IF l = << >> THEN [ cursor |-> cursor, blocks |-> blocks ]
    ELSE
      LET s == Head(l)
          breakEnd == Min2(s.start, endOfDay)
          b1 == IF includeInferredBreaks /\ s.start > cursor /\ breakEnd > cursor
                THEN Append(blocks, [ type |-> "break", start |-> cursor, end |-> breakEnd ])
                ELSE blocks
          c1 == IF s.start > cursor THEN breakEnd ELSE cursor
          blockStart == Max2(s.start, startOfDay)
          blockEnd == Min2(s.end, endOfDay)
          takes == s.end > c1 /\ s.start < endOfDay
          b2 == IF takes /\ blockEnd > blockStart
                THEN Append(b1, [ type |-> "work", start |-> blockStart, end |-> blockEnd ])
                ELSE b1
          c2 == IF takes THEN Max2(c1, s.end) ELSE c1
      IN  BlocksLoop(Tail(l), c2, b2, includeInferredBreaks)

getDayBlocks(stored_sessions, includeInferredBreaks, isToday, now) ==
    LET sessions == SortByStart(FilterSessions(stored_sessions))
        r == BlocksLoop(sessions, startOfDay, << >>, includeInferredBreaks)
        endCap == IF isToday THEN Min2(now, endOfDay) ELSE endOfDay
    IN  IF includeInferredBreaks /\ r.cursor < endOfDay /\ endCap > r.cursor
        THEN Append(r.blocks, [ type |-> "break", start |-> r.cursor, end |-> endCap ])
        ELSE r.blocks

\* DayView renders a date whose stored sessions are l.
DayRendered(l, includeInferredBreaks, isToday, now) ==
    /\ ~day.made
    /\ day' = [ made |-> TRUE, sessions |-> l,
                blocks |-> getDayBlocks(l, includeInferredBreaks, isToday, now) ]
    /\ UNCHANGED << audioVars, ui, phase, stored, timer >>

NextDay ==
    \E l \in SessionLists, inc \in BOOLEAN, today \in BOOLEAN, now \in 0..MaxTimeOfDay :
        DayRendered(l, inc, today, now)

SpecDay == InitWith({DEFAULT_NOISE_CONFIG}) /\ [][NextDay]_vars

\* =================================================================== claims
\* ---- vocabulary of the claims
\* Attempt i of the binaural layer constructs its nodes in this step.
BinauralBuilds(i) == bin.node[i].gain = "none" /\ bin'.node[i].gain # "none"

BinauralPlaying(i) ==
    \/ bin.node[i].noise = "live"
    \/ bin.node[i].left = "live"
    \/ bin.node[i].right = "live"

BinauralSettled ==
    \A i \in Att : bin.att[i].pc \in {"none", "done"} /\ bin.timer[i].st = "none"

\* A callback of ambient attempt i runs in this step and finds the attempt
\* not cancelled: it goes on to construct and load, to start, to schedule the
\* retry, or to raise the load-error.
AmbientCallbackProceeds(i) ==
    \/ amb.att[i].pc = "toneStart" /\ amb'.att[i].pc = "load"
    \/ /\ amb.att[i].pc \in {"load", "retry"}
       /\ \/ amb'.att[i].pc = "backoff"
          \/ amb'.att[i].outcome \in {"started", "error"}
          \/ ambientLoadError' # ambientLoadError

\* A load callback (success or failure) of ambient attempt i runs in this step.
AmbientLoadCallbackRuns(i) ==
    /\ amb.att[i].pc \in {"load", "retry"}
    /\ amb'.att[i].pc # amb.att[i].pc

\* start() is called on the player of ambient attempt i in this step.
PlayerStarts(i) == amb.node[i].player # "playing" /\ amb'.node[i].player = "playing"

AmbientSettled ==
    \A i \in Att : amb.att[i].pc \in {"none", "done"} /\ amb.timer[i].st = "none"

LiveNodes ==
    { i \in Att :
        \/ \E k \in {"gain", "noise", "merge", "left", "right"} : bin.node[i][k] = "live"
        \/ amb.node[i].player \in {"idle", "playing"}
        \/ amb.node[i].gain = "live"
        \/ amb.node[i].audio \in {"idle", "playing"} }

\* A source of attempt i (oscillator, noise, player, audio element) is started in this step.
SourceStarts(i) ==
    \/ \E k \in {"noise", "left", "right"} : bin.node[i][k] = "none" /\ bin'.node[i][k] = "live"
    \/ PlayerStarts(i)
    \/ amb.node[i].audio # "playing" /\ amb'.node[i].audio = "playing"

\* C1: binaural last request wins. An attempt that has been superseded never
\* constructs nodes (and so never writes the shared refs), and once every
\* callback and timer has run, every binaural source still playing belongs to
\* the latest effect run and plays the latest snapshot's preset.
C1_LastRequestWins ==
    [][ /\ \A i \in Att : (BinauralBuilds(i) /\ ~electron) => bin'.cur = i
        /\ BinauralSettled' =>
             \A i \in Att : BinauralPlaying(i)' =>
                 /\ bin'.cur = i
                 /\ config'.enabled
                 /\ bin'.att[i].preset = config'.binauralPreset ]_vars

\* C2: per-attempt cancellation. A callback of a superseded ambient attempt
\* (after the unlock, after a load success, after a load failure) observes the
\* attempt as cancelled: it never proceeds as if the attempt were current.
C2_SupersededSeesCancelled ==
    [][ \A i \in Att : (~electron /\ amb.cur # i) => ~AmbientCallbackProceeds(i) ]_vars

\* C3: ambient stale discard. After the changes A -> B -> C (three attempts with
\* three different presets), start() is never called on the player of A, nor,
\* while A's load is still outstanding, on the player of B.
C3_StaleDiscard ==
    [][ \A i \in {1, 2} :
          ( /\ amb.n = 3
            /\ Cardinality({amb.att[1].preset, amb.att[2].preset, amb.att[3].preset}) = 3
            /\ (i = 1 \/ amb.att[1].pc # "done") )
          => ~PlayerStarts(i) ]_vars

\* C4: no dangling nodes. With the layers disabled and every callback and timer
\* run, no node is left that has not been stopped and disposed.
C4_NoDanglingNodes ==
    (~config.enabled /\ mounted /\ BinauralSettled /\ AmbientSettled) => LiveNodes = {}

\* C5: ambient crossfade policy. When a preset switch retires a playing player
\* and the layer stays enabled with the new attempt, the disposal timer of the
\* old player does not stop it before the new attempt's player has started.
C5_OldPlaysUntilNewReady ==
    [][ \A i \in 1..MaxChanges :
          ( /\ amb.timer[i].st = "pending"
            /\ amb'.timer[i].st = "none"
            /\ amb.timer[i].stays
            /\ amb.cur = i + 1
            /\ amb.timer[i].prevPlayer # 0
            /\ amb.node[amb.timer[i].prevPlayer].player = "playing" )
          => amb.att[i + 1].outcome = "started" ]_vars

\* C6: retry then fail. A non-superseded ambient attempt whose load fails raises
\* the load-error only at its second failed load, and then for its own preset.
C6_RetryThenFail ==
    [][ \A i \in Att :
          ( /\ amb.cur = i
            /\ amb.att[i].pc \in {"load", "retry", "fetch"}
            /\ amb'.att[i].outcome = "error" )
          => (amb'.att[i].loads = 2 /\ ambientLoadError' = amb.att[i].preset) ]_vars

\* C7: bounded retry. No ambient attempt issues more than two loads, and under
\* fair scheduling every attempt that was started ends, as started, as
\* load-error raised, or as discarded.
C7_BoundedRetry ==
    /\ [](\A i \in Att : amb.att[i].loads <= 2)
    /\ \A i \in Att :
          [](amb.att[i].pc # "none" =>
                <>(/\ amb.att[i].pc = "done"
                   /\ amb.att[i].outcome \in {"started", "error", "discarded"}))

\* C7 witness: an attempt has loaded twice and ended with the load-error, and
\* another attempt has ended as discarded.
C7_Witness ==
    /\ \E i \in Att : amb.att[i].loads = 2 /\ amb.att[i].outcome = "error"
    /\ \E j \in Att : amb.att[j].pc = "done" /\ amb.att[j].outcome = "discarded"

\* C8: a load-error that is set names the ambient preset of the latest snapshot.
C8_ErrorNamesCurrentPreset ==
    (mounted /\ ambientLoadError # "null") => ambientLoadError = config.ambientPreset

\* C9: a superseded ambient attempt whose load succeeds or fails is absorbed:
\* it ends as discarded (no start, no retry) and leaves the load-error as it was.
C9_StaleAbsorbed ==
    [][ \A i \in Att :
          (AmbientLoadCallbackRuns(i) /\ amb.cur # i)
          => ( /\ ambientLoadError' = ambientLoadError
               /\ amb'.att[i].outcome = "discarded" ) ]_vars

\* C10: master switch. While the latest snapshot has enabled = FALSE no callback
\* starts an oscillator, a noise source, a player or an audio element.
C10_DisabledStartsNothing ==
    [][ (~config.enabled /\ config' = config) => \A i \in Att : ~SourceStarts(i) ]_vars

\* C11: while the latest snapshot has enabled = FALSE the load-error signal is
\* null, whatever callbacks of earlier attempts have run since the disable.
C11_DisabledErrorStaysNull ==
    (mounted /\ ~config.enabled) => ambientLoadError = "null"

\* The new snapshot differs from the old one in field f and in nothing else.
OnlyChanged(f) ==
    /\ config'[f] # config[f]
    /\ \A g \in Fields \ {f} : config'[g] = config[g]

\* C12: independent layers. A snapshot that changes only ambientPreset leaves
\* the whole binaural layer as it was (refs, nodes, attempts, cancellation
\* flag, timers); a snapshot that changes only binauralPreset leaves the whole
\* ambient layer and the load-error signal as they were.
C12_IndependentLayers ==
    [][ /\ OnlyChanged("ambientPreset") => bin' = bin
        /\ OnlyChanged("binauralPreset") =>
              (amb' = amb /\ ambientLoadError' = ambientLoadError) ]_vars

\* C12 witness: the ambient effect has re-run for a new preset while the
\* binaural session of the first effect run is still the current one, playing.
C12_Witness ==
    /\ changes = 1
    /\ amb.n = 2
    /\ bin.n = 1 /\ bin.cur = 1
    /\ BinauralPlaying(1)

\* A callback of ambient attempt i ends the attempt without starting it, or
\* schedules its retry: a load failure, a rejected gate, a failed fetch or
\* play (and also a stale success that is discarded).
AmbientFailureRuns(i) ==
    /\ amb.att[i].pc \notin {"none", "done", "backoff"}
    /\ amb'.att[i].pc \in {"backoff", "done"}
    /\ amb'.att[i].outcome # "started"

\* C13: an ambient failure (first load failure, retry failure, an error thrown
\* while starting the ambient layer) leaves the binaural layer as it was: no
\* node stopped or disposed, no attempt started, no ref changed.
C13_AmbientFailureSparesBinaural ==
    [][ (\E i \in Att : AmbientFailureRuns(i)) => bin' = bin ]_vars

\* C13 witness: an ambient attempt has raised the load-error at the failure
\* of its retry, and the binaural session of the first effect run plays.
C13_Witness ==
    /\ bin.cur = 1 /\ BinauralPlaying(1)
    /\ \E i \in Att : amb.att[i].outcome = "error" /\ amb.att[i].loads = 2
    /\ ambientLoadError # "null"

\* The new snapshot differs from the old one in the volume fields only.
VolumeOnly ==
    /\ config' # config
    /\ \A g \in Fields \ VolumeDeps : config'[g] = config[g]

\* Layer record new equals layer record old but for the values of its nodes,
\* and only the node ref (the current gain stage, 0 for none) has a new value.
OnlyValueOf(new, old, ref) ==
    /\ new = [old EXCEPT !.node = [i \in Att |-> [old.node[i] EXCEPT !.value = new.node[i].value]]]
    /\ \A i \in Att : new.node[i].value # old.node[i].value => i = ref

\* C14: volume mutation without rebuild. A snapshot that changes only
\* binauralVolume or ambientVolume changes nothing but the value of the current
\* gain stage of a layer (the audio element's volume for the native ambient
\* layer): nodes, refs, attempts, cancellation flags, timers, the load-error
\* signal and the context gate are as before.
C14_VolumeWithoutRebuild ==
    [][ VolumeOnly =>
          /\ OnlyValueOf(bin', bin, IF electron THEN bin.nativeBinauralGainRef
                                                ELSE bin.binauralGainRef)
          /\ OnlyValueOf(amb', amb, IF electron THEN amb.nativeAmbientAudioRef
                                                ELSE amb.ambientGainRef)
          /\ ambientLoadError' = ambientLoadError
          /\ toneModuleRef' = toneModuleRef /\ ctx' = ctx ]_vars

\* C14 witness: binauralVolume went from 50 to 100 while the first binaural
\* session plays: its gain stage has the new value and is still the current one.
C14_Witness ==
    /\ changes = 1 /\ config.binauralVolume = 100
    /\ bin.n = 1 /\ bin.cur = 1 /\ bin.binauralGainRef = 1
    /\ BinauralPlaying(1)
    /\ bin.node[1].value = 100

\* A binaural session that a pending disposal timer will stop and dispose.
BinauralRetiring(i) ==
    \E j \in Att :
        /\ bin.timer[j].st = "pending"
        /\ i \in { bin.timer[j].prev.noise, bin.timer[j].prev.left, bin.timer[j].prev.right }

AmbientPlaying(i) ==
    amb.node[i].player = "playing" \/ amb.node[i].audio = "playing"

\* An ambient session scheduled for disposal: captured by a pending disposal
\* timer, or captured as the previous player by an attempt whose load is
\* pending (it is stopped when that load succeeds).
AmbientRetiring(i) ==
    \/ \E j \in Att : amb.timer[j].st = "pending" /\ amb.timer[j].prevPlayer = i
    \/ \E j \in Att : amb.att[j].pc \in {"load", "backoff", "retry"} /\ amb.att[j].prevPlayer = i

\* C15: each layer has at most one session that is playing and not retiring.
C15_OneActiveSession ==
    /\ Cardinality({ i \in Att : BinauralPlaying(i) /\ ~BinauralRetiring(i) }) <= 1
    /\ Cardinality({ i \in Att : AmbientPlaying(i) /\ ~AmbientRetiring(i) }) <= 1

\* C16: crossfade overlap bound. The sources of two ambient attempts play
\* together only for a bounded time (the fade window and a tick): once every
\* callback and every disposal timer has run, so that nothing further can stop
\* a source, at most one ambient source is playing.
C16_OverlapEnds ==
    (mounted /\ AmbientSettled) => Cardinality({ i \in Att : AmbientPlaying(i) }) <= 1

\* Some binaural source (oscillator or noise) is playing.
BinauralAudible == \E j \in Att : BinauralPlaying(j)

\* C17: binaural preset switch ordering. While the layer stays enabled after a
\* preset switch, the disposal timer of the old session does not silence the
\* layer while the attempt of the latest effect run is still awaiting
\* Tone.start(): the silence would last until the unlock resolves, which no
\* tick bounds.
C17_NoSilentGap ==
    [][ \A i \in Att :
          ( /\ bin.timer[i].st = "pending" /\ bin'.timer[i].st = "none"
            /\ mounted /\ config.enabled /\ config.binauralPreset # "off"
            /\ bin.cur # 0
            /\ bin.att[bin.cur].pc = "toneStart"
            /\ BinauralAudible )
          => BinauralAudible' ]_vars

\* The instance a getTone() call is to resolve to: the module namespace object
\* (Tone backend) or the audio context (Electron backend).
GateInstance ==
    IF electron THEN [kind |-> "context", id |-> gate.ctxs]
    ELSE [kind |-> "module", id |-> gate.mods]

\* At most one audio context and at most one module instance are constructed.
GateConstructsOnce == gate.ctxs <= 1 /\ gate.mods <= 1

\* C18: context gate single instance. However the getTone() calls overlap, at
\* most one audio context (Electron) or module instance (Tone) is constructed
\* and every resolved call has that instance as its result.
C18_SingleInstance ==
    /\ GateConstructsOnce
    /\ \A k \in Calls :
          gate.call[k].pc = "resolved" => gate.call[k].result = GateInstance

\* C19: gate before nodes. An attempt that is still awaiting its context unlock
\* (getTone(), Tone.start(), or resume() of a suspended context) has constructed
\* no node; and under Electron, as long as no context has been created, no
\* binaural node exists at all.
C19_GateBeforeNodes ==
    /\ \A i \in Att :
          bin.att[i].pc \in {"getTone", "toneStart", "resume"} => bin.node[i] = NoBinauralNodes
    /\ \A i \in Att :
          amb.att[i].pc \in {"getTone", "toneStart"} => amb.node[i] = NoAmbientNodes
    /\ (electron /\ ctx = "none") => \A i \in Att : bin.node[i] = NoBinauralNodes

\* C19 witness: the binaural attempt has passed the gate and has built and
\* started its oscillators; the ambient attempt of the same snapshot is still
\* awaiting Tone.start() and has constructed nothing.
C19_Witness ==
    /\ ~electron
    /\ bin.att[1].pc = "done" /\ BinauralPlaying(1)
    /\ amb.att[1].pc = "toneStart" /\ amb.node[1] = NoAmbientNodes

\* No ref of the binaural layer, of either backend, names a node.
NoBinauralSession(b) ==
    /\ BinauralRefs(b) = NoPrev
    /\ b.nativeBinauralGainRef = 0 /\ b.nativeNoiseRef = 0
    /\ b.nativeLeftOscRef = 0 /\ b.nativeRightOscRef = 0

UnlockResolvedStep ==
    LET done(f) == /\ ui[f] = (IF electron THEN "getTone" ELSE "start")
                   /\ ui'[f] = "idle"
                   /\ electron => ctx = "running"
    IN  \/ done("toggle") /\ ui'.startError = "null"
        \/ done("timerStart") /\ ui'.audioStartError = "null"

\* C21: Start toggle gating.  enabled turns true only in a step that ends a
\* resolved unlock; pressing Start leaves enabled as it is and sets
\* 'starting'; a rejected unlock leaves the configuration as it is (enabled
\* stays false) and reports the start error; both outcomes put 'starting'
\* back to false; pressing Stop disables in the same step, with nothing
\* left pending.
C21_StartGating ==
    [][ /\ (~config.enabled /\ config'.enabled) => UnlockResolvedStep
        /\ PressStart => (config' = config /\ ui'.starting)
        /\ (ToggleGetToneResolved \/ ToggleStartResolved) =>
              (ui'.toggle = "idle" => ~ui'.starting)
        /\ ToggleRejected =>
              /\ config' = config
              /\ ui'.startError = "error" /\ ~ui'.starting
              /\ (ui.timerStart = "idle" /\ ~config.enabled) => ~config'.enabled
        /\ StartRejected => (config' = config /\ ui'.audioStartError = "error")
        /\ PressStop => (~config'.enabled /\ ui'.toggle = "idle" /\ ~ui'.starting)
      ]_vars

\* C21 witness: a start was unlocked and enabled, audio was stopped, and the
\* unlock of the next start rejected: disabled, error shown, not starting.
C21_Witness ==
    /\ changes = 2 /\ ~config.enabled
    /\ ui.startError = "error" /\ ~ui.starting /\ ui.toggle = "idle"

\* The beat frequencies the claim lists, in hertz.
ClaimedBeat(p) ==
    CASE p = "focus" -> 20 [] p = "study" -> 10 [] p = "work" -> 40 [] p = "relax" -> 6
      [] p = "rest" -> 2 [] p = "energy" -> 25 [] p = "calm" -> 14

\* C22: Stereo phase lock.  For each beat preset with beat frequency b, the
\* started pair has left = 200 - b/2 and right = 200 + b/2 (so right - left
\* = b), and both oscillators are started with the same start time; the two
\* other presets start no oscillator.
C22_StereoPhaseLock ==
    IF phase.preset \in {"focus", "study", "work", "relax", "rest", "energy", "calm"}
    THEN LET b == ClaimedBeat(phase.preset)
         IN  /\ phase.left.frequency + b = 400
             /\ phase.right.frequency - b = 400
             /\ phase.right.frequency - phase.left.frequency = 2 * b
             /\ phase.left.startedAt = phase.right.startedAt
    ELSE DOMAIN phase = {"preset"}

\* C22 witness: the pair of 'energy' (b = 25, an odd beat) started by Tone at a
\* time after 0: 187.5 Hz and 212.5 Hz.
C22_Witness ==
    /\ phase.preset = "energy" /\ ~phase.native
    /\ phase.left.frequency = 375 /\ phase.right.frequency = 425
    /\ phase.left.startedAt > 0

\* C23: Backend equivalence.  The caller sees the same retry count on both
\* backends: whichever backend runs, an ambient attempt that ended by raising
\* the load-error has made no load (its unlock failed) or two loads (the
\* load and its one retry), as the synthesis-library backend does.
C23_BackendEquivalence ==
    \A i \in Att : amb.att[i].outcome = "error" => amb.att[i].loads \in {0, 2}

\* C24: No use after release.  No step calls load() or start() on a player
\* that has been disposed: neither the retry load fired by the backoff timer
\* nor the start after a completed load.
C24_NoUseAfterRelease ==
    [][ \A i \in Att :
          /\ (amb.att[i].pc = "backoff" /\ amb'.att[i].pc = "retry")
                => amb.node[i].player # "disposed"
          /\ PlayerStarts(i) => amb.node[i].player # "disposed" ]_vars

C26_AutoAdvance ==
    [][ (TimerTick /\ timer.timeRemaining <= 1) =>
          LET c == timer.config
              n == timer'.currentCycle
          IN  /\ timer'.state # "running" /\ ~timer'.interval
              /\ timer'.ran = 1
              /\ IF timer.isWorkSession
                 THEN /\ n = timer.currentCycle + 1
                      /\ ~timer'.isWorkSession
                      /\ (n % c.cyclesUntilLongBreak = 0)
                           <=> (timer'.timeRemaining = c.longBreakDuration * 60)
                      /\ (n % c.cyclesUntilLongBreak # 0)
                           => (timer'.timeRemaining = c.shortBreakDuration * 60)
                 ELSE /\ n = timer.currentCycle
                      /\ timer'.isWorkSession
                      /\ timer'.timeRemaining = c.workDuration * 60 ]_vars

\* C26 witness: the countdown of the work session that completes a full round
\* of cycles has just reached zero: a long break is set and waits.
C26_Witness ==
    /\ timer.last = "tick" /\ timer.ran = 1
    /\ ~timer.isWorkSession /\ timer.state = "idle"
    /\ timer.currentCycle = timer.config.cyclesUntilLongBreak
    /\ timer.timeRemaining = timer.config.longBreakDuration * 60

\* C28: under any sequence of start, pause, stop, skip, adjustTime, resetTimer
\* and ticks, timeRemaining is never negative, and time passes for the timer
\* (the interval is set, so a tick can decrement timeRemaining) only in the
\* running state.
C28_NeverNegative ==
    /\ timer.timeRemaining >= 0
    /\ timer.interval => timer.state = "running"
    /\ timer.last = "tick" => timer.state \in {"running", "idle"}

\* C28 witness: adjustTime took a paused countdown below zero and the clamp
\* left it at zero, where it stays while paused.
C28_Witness ==
    /\ timer.last = "adjustTime" /\ timer.state = "paused"
    /\ timer.timeRemaining = 0 /\ ~timer.interval

\* C29: stop is a full reset from any state: after stop() the state is idle,
\* sessionStartTime is null, the session is a work session, the cycle count is
\* 0 and timeRemaining is workDuration * 60, and no interval is left to tick
\* before the next start(); start() while running and pause() while not
\* running change nothing.
C29_StopResets ==
    [][ /\ TimerStop =>
              /\ timer'.state = "idle" /\ ~timer'.sessionStartTime
              /\ timer'.isWorkSession /\ timer'.currentCycle = 0
              /\ timer'.timeRemaining = timer.config.workDuration * 60
              /\ ~timer'.interval
        /\ (timer.state # "running" /\ timer'.state # "running") => ~timer'.interval
        /\ (TimerStart /\ timer.state = "running") =>
              timer' = [timer EXCEPT !.last = "start", !.ran = 0]
        /\ (TimerPause /\ timer.state # "running") =>
              timer' = [timer EXCEPT !.last = "pause", !.ran = 0] ]_vars

\* C29 witness: stop() has just reset a timer, and the reset differs from the
\* initial state only in what was done last.
C29_Witness ==
    /\ timer.last = "stop" /\ timer.state = "idle" /\ timer.currentCycle = 0
    /\ timer.isWorkSession /\ ~timer.sessionStartTime /\ ~timer.interval
    /\ timer.timeRemaining = timer.config.workDuration * 60

\* C27: Gain tracks the latest volume.  Whenever a layer has an active session
\* (a ref of the layer names its gain stage), the value of that gain stage is
\* the volume of the latest configuration, also when the volume was changed
\* while the session was still starting.
C27_GainTracksVolume ==
    LET binRef == IF electron THEN bin.nativeBinauralGainRef ELSE bin.binauralGainRef
        ambRef == IF electron THEN amb.nativeAmbientAudioRef ELSE amb.ambientGainRef
    IN  /\ binRef # 0 => bin.node[binRef].value = config.binauralVolume
        /\ ambRef # 0 => amb.node[ambRef].value = config.ambientVolume

\* C30: getDayBlocks returns, for any stored work sessions of a day
\* (overlapping ones included), blocks that are in chronological order,
\* pairwise non-overlapping, each with end > start, and all within the window
\* from dayStartHour:00 to dayEndHour:59:59.999.
C30_DayBlocks ==
    day.made =>
        LET b == day.blocks
        IN  /\ \A i \in 1..Len(b) :
                 /\ b[i].end > b[i].start
                 /\ b[i].start >= startOfDay /\ b[i].end <= endOfDay
            /\ \A i, j \in 1..Len(b) : i < j =>
                 /\ b[i].start <= b[j].start
                 /\ b[i].end <= b[j].start

====
